---- MODULE Spec2Model ----
(***************************************************************************)
(* A model of tools/gcp_bigquery.py: the read-only BigQuery command-line   *)
(* tool.  The process main() is modelled step by step (argument parsing,   *)
(* credential check, client construction, one command handler, one print)  *)
(* under Spec; the two pure functions is_readonly_query and format_output  *)
(* are applied to bounded sets of inputs under PureSpec.                   *)
(*                                                                         *)
(* A SQL query is a sequence of one-character strings, so that the regular *)
(* expressions of NON_READONLY_PATTERNS are evaluated character by         *)
(* character (word boundaries, case folding, '.' not matching a newline).  *)
(* The alphabet is ASCII.                                                  *)
(***************************************************************************)
EXTENDS Integers, Sequences, FiniteSets, TLC

VARIABLES pc, argv, environ, bq, stdout, stderr, exit_status, calls, job,
          result, ret

vars == <<pc, argv, environ, bq, stdout, stderr, exit_status, calls, job,
          result, ret>>

(***************************************************************************)
(* Bounds of the model.                                                    *)
(***************************************************************************)
\* fragments concatenated into one query text (PureSpec)
MaxFrags == 3
\* characters of a string handed to format_output (PureSpec)
MaxStrLen == 3
\* datasets, or tables, the service lists
MaxItems == 2
\* columns of a query result, or of a table schema
MaxCols == 2
\* rows the service holds beyond the five that are fetched
ExtraRows == 2

(***************************************************************************)
(* Characters.                                                             *)
(***************************************************************************)
LowerCase ==
    <<"a","b","c","d","e","f","g","h","i","j","k","l","m",
      "n","o","p","q","r","s","t","u","v","w","x","y","z">>

UpperCase ==
    <<"A","B","C","D","E","F","G","H","I","J","K","L","M",
      "N","O","P","Q","R","S","T","U","V","W","X","Y","Z">>

Digits == {"0","1","2","3","4","5","6","7","8","9"}

Range(s) == {s[k] : k \in 1..Len(s)}

\* the characters the regular expression class \w matches
WordChars == Range(LowerCase) \cup Range(UpperCase) \cup Digits \cup {"_"}

\* re.IGNORECASE compares characters after folding them to lower case
Fold(c) ==
    IF c \in Range(UpperCase)
    THEN LowerCase[CHOOSE k \in 1..26 : UpperCase[k] = c]
    ELSE c

\* the line break: the one character '.' does not match (no re.DOTALL)
NL == "\n"

(***************************************************************************)
(* NON_READONLY_PATTERNS, is_readonly_query.                               *)
(***************************************************************************)
\* the alternation of the first pattern
MutatingKeywords ==
    { <<"I","N","S","E","R","T">>, <<"U","P","D","A","T","E">>,
      <<"D","E","L","E","T","E">>, <<"C","R","E","A","T","E">>,
      <<"D","R","O","P">>, <<"A","L","T","E","R">>,
      <<"M","E","R","G","E">>, <<"T","R","U","N","C","A","T","E">> }

GRANT == <<"G","R","A","N","T">>
TO == <<"T","O">>
REVOKE == <<"R","E","V","O","K","E">>
FROM == <<"F","R","O","M">>

\* whether position p of s (1..Len(s)) holds a \w character; positions
\* outside the text count as non-word
IsWordAt(s, p) == p >= 1 /\ p <= Len(s) /\ s[p] \in WordChars

\* \b between positions p and p+1 of s (p in 0..Len(s))
WordBoundary(s, p) == IsWordAt(s, p) # IsWordAt(s, p + 1)

\* the literal w matches s at position i
LiteralAtCase(s, i, w) ==
    /\ i >= 1
    /\ i + Len(w) - 1 <= Len(s)
    /\ \A k \in 1..Len(w) : s[i + k - 1] = w[k]

\* the literal w matches s at position i under re.IGNORECASE
LiteralAt(s, i, w) ==
    /\ i >= 1
    /\ i + Len(w) - 1 <= Len(s)
    /\ \A k \in 1..Len(w) : Fold(s[i + k - 1]) = Fold(w[k])

\* \bw\b matches s at position i
WordAt(s, i, w) ==
    /\ WordBoundary(s, i - 1)
    /\ LiteralAt(s, i, w)
    /\ WordBoundary(s, i + Len(w) - 1)

\* '.*' spans positions from..to of s: every character but a line break
DotStar(s, from, to) == \A k \in from..to : s[k] # NL

\* search of \b(INSERT|...|TRUNCATE)\b anywhere in s
SearchKeyword(s) ==
    \E i \in 1..Len(s) : \E w \in MutatingKeywords : WordAt(s, i, w)

\* search of \bfirst\b.*\bsecond\b anywhere in s
SearchSpan(s, first, second) ==
    \E i \in 1..Len(s) : \E j \in 1..Len(s) :
        /\ WordAt(s, i, first)
        /\ j >= i + Len(first)
        /\ DotStar(s, i + Len(first), j - 1)
        /\ WordAt(s, j, second)

\* pattern.search(query) for the n-th pattern of NON_READONLY_PATTERNS
PatternSearch(n, query) ==
    CASE n = 1 -> SearchKeyword(query)
      [] n = 2 -> SearchSpan(query, GRANT, TO)
      [] n = 3 -> SearchSpan(query, REVOKE, FROM)

is_readonly_query(query) == ~ \E n \in 1..3 : PatternSearch(n, query)

(***************************************************************************)
(* Python values: a str, or a list of row dicts.  A row dict is a sequence *)
(* of <<key, value>> pairs in insertion order.                             *)
(***************************************************************************)
Str(s) == [type |-> "str", str |-> s, list |-> <<>>]

List(l) == [type |-> "list", str |-> "", list |-> l]

None == [type |-> "NoneType", str |-> "", list |-> <<>>]

\* Python truthiness of a str, a list or None: 'not data' is ~Truthy(data)
Truthy(data) ==
    CASE data.type = "str" -> data.str # ""
      [] data.type = "list" -> data.list # <<>>
      [] OTHER -> FALSE

\* the str of 'x or ""'
OrEmpty(x) == IF Truthy(x) THEN x.str ELSE ""

\* d[key] = value: a present key keeps its place, a new key goes last
DictSet(d, key, value) ==
    IF \E k \in 1..Len(d) : d[k][1] = key
    THEN [k \in 1..Len(d) |-> IF d[k][1] = key THEN <<key, value>> ELSE d[k]]
    ELSE Append(d, <<key, value>>)

(***************************************************************************)
(* format_output.                                                          *)
(***************************************************************************)
\* tabulate(data, headers="keys", tablefmt="pipe"): the rendered table, kept
\* as the rows it renders
Tabulate(data) == [type |-> "table", str |-> "", list |-> data.list]

\* str(data) of a list
Repr(data) == [type |-> "repr", str |-> "", list |-> data.list]

NoData == "No data to display."

format_output(data, format_type) ==
    IF ~Truthy(data) THEN Str(NoData)
    ELSE IF data.type = "str" THEN data
    ELSE IF format_type = "table" THEN Tabulate(data)
    ELSE Repr(data)

(***************************************************************************)
(* The inputs of the pure functions.                                       *)
(***************************************************************************)
\* the pieces a query text is put together from: every mutating keyword in
\* some letter case, the words of the two span patterns, and separators
Fragments ==
    << <<"I","N","S","E","R","T">>, <<"u","p","d","a","t","e">>,
       <<"D","e","l","e","t","e">>, <<"C","R","E","A","T","E">>,
       <<"d","r","o","p">>, <<"A","L","T","E","R">>,
       <<"m","e","r","g","e">>, <<"T","R","U","N","C","A","T","E">>,
       <<"G","R","A","N","T">>, <<"t","o">>,
       <<"R","E","V","O","K","E">>, <<"F","r","o","m">>,
       <<" ">>, <<NL>>, <<"x">>, <<"_">>, <<";">> >>

RECURSIVE Concat(_)
Concat(fs) == IF fs = <<>> THEN <<>> ELSE Head(fs) \o Concat(Tail(fs))

\* the query texts of at most n fragments
QueriesUpTo(n) ==
    UNION { { Concat([k \in 1..m |-> Fragments[f[k]]]) :
                f \in [1..m -> 1..Len(Fragments)] } : m \in 0..n }

Queries == QueriesUpTo(MaxFrags)

\* the strings of at most n characters over a two-letter alphabet
RECURSIVE StringsUpTo(_)
StringsUpTo(n) ==
    IF n = 0 THEN {""}
    ELSE LET shorter == StringsUpTo(n - 1)
         IN  shorter \cup {s \o c : s \in shorter, c \in {"a", "|"}}

\* the row lists of at most n one-column rows
RowListsUpTo(n) ==
    UNION { [1..m -> { << <<"col", v>> >> : v \in {"", "v"} }] : m \in 0..n }

FormatInputs ==
    {Str(s) : s \in StringsUpTo(MaxStrLen)} \cup
    {List(l) : l \in RowListsUpTo(MaxItems)}

(***************************************************************************)
(* The state of a process that has not started, shared by both             *)
(* specifications.                                                         *)
(***************************************************************************)
NoArgs ==
    [command |-> "", dataset_id |-> "", table_id |-> "", query |-> <<>>,
     dry_run |-> FALSE, project |-> ""]

NoJob == [submitted |-> FALSE]

Idle ==
    /\ bq = [connected |-> FALSE, project_id |-> ""]
    /\ stdout = <<>>
    /\ stderr = <<>>
    /\ exit_status = 0
    /\ calls = <<>>
    /\ job = NoJob

(***************************************************************************)
(* PureSpec: is_readonly_query and format_output applied to one input.     *)
(***************************************************************************)
PureInit ==
    /\ Idle
    /\ environ = {}
    /\ ret = Str("")
    /\ \/ /\ pc = "call_is_readonly_query"
          /\ \E q \in Queries : argv = [NoArgs EXCEPT !.query = q]
          /\ result = Str("")
       \/ /\ pc = "call_format_output"
          /\ argv = NoArgs
          /\ result \in FormatInputs

CallIsReadonly ==
    /\ pc = "call_is_readonly_query"
    /\ ret' = is_readonly_query(argv.query)
    /\ pc' = "returned_is_readonly_query"
    /\ UNCHANGED <<argv, environ, bq, stdout, stderr, exit_status, calls, job,
                   result>>

CallFormatOutput ==
    /\ pc = "call_format_output"
    /\ ret' = format_output(result, "table")
    /\ pc' = "returned_format_output"
    /\ UNCHANGED <<argv, environ, bq, stdout, stderr, exit_status, calls, job,
                   result>>

PureNext == CallIsReadonly \/ CallFormatOutput

PureSpec == PureInit /\ [][PureNext]_vars

(***************************************************************************)
(* The process: its command line, its environment, and the outcomes of the *)
(* calls it makes to the BigQuery client.                                  *)
(***************************************************************************)
\* the query texts given on the command line, the empty text among them
SampleQueries ==
    { <<>>,
       <<"S","E","L","E","C","T"," ","*"," ","F","R","O","M"," ","t">>,
       <<"s","e","l","e","c","t"," ","*"," ","f","r","o","m"," ","t",";",
         " ","D","R","O","P"," ","T","A","B","L","E"," ","t">>,
       <<"G","R","A","N","T"," ","S","E","L","E","C","T"," ","O","N"," ",
         "t"," ","T","O"," ","u","s","e","r">>,
       <<"G","R","A","N","T"," ","S","E","L","E","C","T"," ","O","N"," ",
         "t",NL,"T","O"," ","u","s","e","r">>,
       <<"S","E","L","E","C","T"," ","u","p","d","a","t","e","d","_","a",
         "t"," ","F","R","O","M"," ","t">>,
       <<"R","E","V","O","K","E"," ","S","E","L","E","C","T"," ","O","N",
         " ","t"," ","F","R","O","M"," ","u","s","e","r">>,
       <<"S","E","L","E","C","T"," ","1",NL,"D","E","L","E","T","E"," ",
         "F","R","O","M"," ","t">> }

\* --project: absent (""), or given
Projects == {"", "explicit-project"}

\* parser.parse_args(): no subcommand, or one with its arguments
Argvs ==
    {NoArgs}
    \cup {[NoArgs EXCEPT !.command = "list-datasets", !.project = p] :
            p \in Projects}
    \cup {[NoArgs EXCEPT !.command = "list-tables", !.dataset_id = "ds",
                         !.project = p] : p \in Projects}
    \cup {[NoArgs EXCEPT !.command = "get-schema", !.dataset_id = "ds",
                         !.table_id = "tbl", !.project = p] : p \in Projects}
    \cup {[NoArgs EXCEPT !.command = "run-query", !.query = q, !.dry_run = d,
                         !.project = p] :
            q \in SampleQueries, d \in BOOLEAN, p \in Projects}

CREDENTIALS == "GOOGLE_APPLICATION_CREDENTIALS"

\* os.environ, as a set of <<name, value>> pairs
Environs == {{}, {<<CREDENTIALS, "/keys/sa.json">>}}

EnvironGet(env, name) == (CHOOSE nv \in env : nv[1] = name)[2]

\* the project of the default credentials (client.project)
DefaultProject == "default-project"

\* what a call raises: nothing, a GoogleCloudError (an error the service
\* answers with), or another exception (credentials, transport)
NoError == [kind |-> "none", detail |-> ""]

Errors ==
    { [kind |-> "GoogleCloudError", detail |-> "404 Not found"],
      [kind |-> "GoogleCloudError", detail |-> "403 Access Denied"],
      [kind |-> "Exception", detail |-> "connection reset"] }

Outcomes == {NoError} \cup Errors

\* one call to the client, as logged in calls: what was called, with what,
\* what it raised, and what it returned
Call(op, arg, raised, returned) ==
    [op |-> op, arg |-> arg, raised |-> raised, returned |-> returned]

\* the n-th identifier with the given prefix
Id(prefix, n) == prefix \o ToString(n)

(***************************************************************************)
(* Process start and exit.                                                 *)
(***************************************************************************)
Init ==
    /\ Idle
    /\ pc = "parse_args"
    /\ argv \in Argvs
    /\ environ \in Environs
    /\ result = Str("")
    /\ ret = Str("")

\* print(...): one line on the primary output stream
PrintLine(out, text) == Append(out, Str(text))

\* sys.exit(1) after a message printed with print()
ExitWith(text) ==
    /\ stdout' = PrintLine(stdout, text)
    /\ exit_status' = 1
    /\ pc' = "exited"
    /\ UNCHANGED stderr

\* an exception no except clause catches: the interpreter writes the
\* traceback to the diagnostic stream and exits with status 1
Uncaught(e) ==
    /\ stderr' = PrintLine(stderr, "Traceback (most recent call last): " \o e.detail)
    /\ exit_status' = 1
    /\ pc' = "exited"
    /\ UNCHANGED stdout

\* the except clause without its sys.exit(1): the handler returns None
FatalNoExit(e, text) ==
    IF e.kind = "GoogleCloudError"
    THEN /\ stdout' = PrintLine(stdout, text \o e.detail)
         /\ pc' = "print_result"
         /\ UNCHANGED <<stderr, exit_status>>
    ELSE Uncaught(e)

\* 'except GoogleCloudError as e: print(text); sys.exit(1)' around a call
\* that raised e
Fatal(e, text) ==
    IF e.kind = "GoogleCloudError" THEN ExitWith(text \o e.detail)
    ELSE Uncaught(e)

(***************************************************************************)
(* main(): argument parsing, credential check, client construction.        *)
(***************************************************************************)
HelpText == "usage: gcp_bigquery.py [-h] {list-datasets,list-tables,get-schema,run-query} ..."

ParseArgs ==
    /\ pc = "parse_args"
    /\ IF argv.command = ""
       THEN ExitWith(HelpText)
       ELSE /\ pc' = "check_credentials"
            /\ UNCHANGED <<stdout, stderr, exit_status>>
    /\ UNCHANGED <<argv, environ, bq, calls, job, result, ret>>

CredentialWarning ==
    << "Warning: GOOGLE_APPLICATION_CREDENTIALS environment variable is not set.",
       "Set it in your .env file to the path of your service account key file:",
       "GOOGLE_APPLICATION_CREDENTIALS=/path/to/your-key-file.json",
       "Continuing with default authentication..." >>

CheckCredentials ==
    /\ pc = "check_credentials"
    /\ IF ~ \E nv \in environ : nv[1] = CREDENTIALS
       THEN /\ stdout' = stdout \o [k \in 1..Len(CredentialWarning) |->
                                      Str(CredentialWarning[k])]
            /\ UNCHANGED stderr
       ELSE /\ stderr' = PrintLine(stderr, "Using service account key: "
                                     \o EnvironGet(environ, CREDENTIALS))
            /\ UNCHANGED stdout
    /\ pc' = "init_client"
    /\ UNCHANGED <<argv, environ, bq, exit_status, calls, job, result, ret>>

\* BigQueryTool.__init__
InitClient ==
    /\ pc = "init_client"
    /\ \E e \in Outcomes :
        /\ calls' = Append(calls, Call("Client", argv.project, e, None))
        /\ IF e = NoError
           THEN /\ bq' = [connected |-> TRUE,
                          project_id |-> IF argv.project # "" THEN argv.project
                                         ELSE DefaultProject]
                /\ stderr' = PrintLine(stderr, "Connected to BigQuery project: "
                                         \o bq'.project_id)
                /\ pc' = "dispatch"
                /\ UNCHANGED <<stdout, exit_status>>
           ELSE /\ Fatal(e, "Error connecting to BigQuery: ")
                /\ UNCHANGED bq
    /\ UNCHANGED <<argv, environ, job, result, ret>>

(***************************************************************************)
(* list_datasets.                                                          *)
(***************************************************************************)
\* client.get_dataset(dataset_ref): the description it returns, or what it
\* raises
DatasetFetches ==
    {[raised |-> NoError, description |-> d] :
        d \in {None, Str(""), Str("about this dataset")}}
    \cup {[raised |-> e, description |-> None] : e \in Errors}

\* the description of a listed dataset, a failed fetch reported in it
DatasetDescriptionReports(fetch) ==
    IF fetch.raised = NoError THEN OrEmpty(fetch.description)
    ELSE fetch.raised.detail

\* the description of a listed dataset, a failed fetch ignored
DatasetDescription(fetch) ==
    IF fetch.raised = NoError THEN OrEmpty(fetch.description) ELSE ""

DatasetRow(dataset_id, fetch) ==
    << <<"Dataset ID", dataset_id>>,
       <<"Description", DatasetDescription(fetch)>> >>

ListDatasets ==
    /\ pc = "dispatch"
    /\ argv.command = "list-datasets"
    /\ \E e \in Outcomes :
        IF e # NoError
        THEN /\ calls' = Append(calls, Call("list_datasets", bq.project_id, e, <<>>))
             /\ Fatal(e, "Error listing datasets: ")
             /\ UNCHANGED result
        ELSE \E m \in 0..MaxItems : \E fetch \in [1..m -> DatasetFetches] :
             LET datasets == [k \in 1..m |-> Id("dataset", k)] IN
             /\ calls' = Append(calls, Call("list_datasets", bq.project_id, e, datasets))
                         \o [k \in 1..m |->
                               Call("get_dataset", datasets[k], fetch[k].raised,
                                    fetch[k].description)]
             /\ stdout' = IF m = 0
                          THEN PrintLine(stdout, "No datasets found in project "
                                                   \o bq.project_id)
                          ELSE stdout
             /\ result' = List([k \in 1..m |-> DatasetRow(datasets[k], fetch[k])])
             /\ pc' = "print_result"
             /\ UNCHANGED <<stderr, exit_status>>
    /\ UNCHANGED <<argv, environ, bq, job, ret>>

(***************************************************************************)
(* list_tables.                                                            *)
(***************************************************************************)
\* client.get_table(table): the table it returns, or what it raises
TableFetches ==
    {[raised |-> NoError, table_type |-> t, description |-> d] :
        t \in {"TABLE", "VIEW", "EXTERNAL"}, d \in {None, Str("about this table")}}
    \cup {[raised |-> e, table_type |-> "", description |-> None] : e \in Errors}

TableRow(table_id, fetch) ==
    << <<"Table ID", table_id>>,
       <<"Type", IF fetch.table_type = "VIEW" THEN "VIEW" ELSE "TABLE">>,
       <<"Description", OrEmpty(fetch.description)>> >>

\* how many get_table calls the loop makes: up to the first that raises
TableFetchCount(fetch) ==
    LET failed == {k \in 1..Len(fetch) : fetch[k].raised # NoError}
    IN  IF failed = {} THEN Len(fetch)
        ELSE CHOOSE k \in failed : \A l \in failed : k <= l

ListTables ==
    /\ pc = "dispatch"
    /\ argv.command = "list-tables"
    /\ \E e \in Outcomes :
        LET text == "Error listing tables in dataset " \o argv.dataset_id \o ": " IN
        IF e # NoError
        THEN /\ calls' = Append(calls, Call("list_tables", argv.dataset_id, e, <<>>))
             /\ Fatal(e, text)
             /\ UNCHANGED result
        ELSE \E m \in 0..MaxItems : \E fetch \in [1..m -> TableFetches] :
             LET tables == [k \in 1..m |-> Id("table", k)]
                 n == TableFetchCount(fetch)
             IN
             /\ calls' = Append(calls, Call("list_tables", argv.dataset_id, e, tables))
                         \o [k \in 1..n |->
                               Call("get_table", tables[k], fetch[k].raised,
                                    fetch[k].description)]
             /\ IF n > 0 /\ fetch[n].raised # NoError
                THEN /\ Fatal(fetch[n].raised, text)
                     /\ UNCHANGED result
                ELSE /\ stdout' = IF m = 0
                                  THEN PrintLine(stdout, "No tables found in dataset "
                                                           \o argv.dataset_id)
                                  ELSE stdout
                     /\ result' = List([k \in 1..m |-> TableRow(tables[k], fetch[k])])
                     /\ pc' = "print_result"
                     /\ UNCHANGED <<stderr, exit_status>>
    /\ UNCHANGED <<argv, environ, bq, job, ret>>

(***************************************************************************)
(* get_schema.                                                             *)
(***************************************************************************)
\* the fields of table.schema
SchemaFields ==
    [field_type : {"STRING", "INTEGER"}, is_nullable : BOOLEAN,
     description : {None, Str("about this column")}]

ColumnRow(name, field) ==
    << <<"Column Name", name>>,
       <<"Data Type", field.field_type>>,
       <<"Nullable", IF field.is_nullable THEN "YES" ELSE "NO">>,
       <<"Description", OrEmpty(field.description)>> >>

GetSchema ==
    /\ pc = "dispatch"
    /\ argv.command = "get-schema"
    /\ \E e \in Outcomes :
        LET table == argv.dataset_id \o "." \o argv.table_id IN
        IF e # NoError
        THEN /\ calls' = Append(calls, Call("get_table", table, e, <<>>))
             /\ Fatal(e, "Error getting schema for " \o table \o ": ")
             /\ UNCHANGED result
        ELSE \E m \in 0..MaxCols : \E schema \in [1..m -> SchemaFields] :
             /\ calls' = Append(calls, Call("get_table", table, e, schema))
             /\ result' = List([k \in 1..m |-> ColumnRow(Id("column", k), schema[k])])
             /\ pc' = "print_result"
             /\ UNCHANGED <<stdout, stderr, exit_status>>
    /\ UNCHANGED <<argv, environ, bq, job, ret>>

(***************************************************************************)
(* run_query.                                                              *)
(***************************************************************************)
Rejection ==
    "Error: Only read-only queries are allowed. Data modification operations detected."

\* a run_query that never rejects
RejectsNothing(query) == FALSE

\* 'if not self.is_readonly_query(query)'
Rejects(query) == ~is_readonly_query(query)

\* max_results of query_job.result(max_results=5)
MaxResults == 5

\* 'if row_count >= 5: break'
RowLimit == 5

\* the dry-run message without the estimate
DryRunMessageNoBytes(bytes_processed) == "Query validation successful."

DryRunMessage(bytes_processed) ==
    "Query validation successful. Estimated bytes processed: "
        \o ToString(bytes_processed) \o " bytes."

QueryError(e) == "Error executing query: " \o e.detail

\* the value the service holds in column j of row i of a query's result
Cell(i, j) == <<"row", i, "column", j>>

\* the query jobs client.query() may return: the bytes the service estimates,
\* the columns of the result (their names are distinct, as BigQuery requires
\* of a result) and the rows the query yields
Jobs(dry_run) ==
    { [submitted |-> TRUE, dry_run |-> dry_run, total_bytes_processed |-> b,
       schema |-> [j \in 1..c |-> Id("f", j)], total_rows |-> n] :
        b \in {0, 2048}, c \in 1..MaxCols, n \in 0..(MaxResults + ExtraRows) }

Min(a, b) == IF a <= b THEN a ELSE b

\* query_job.result(max_results): the rows the iterator yields, in the
\* service's order
Cursor(j, max_results) ==
    [i \in 1..Min(j.total_rows, max_results) |->
        [c \in 1..Len(j.schema) |-> Cell(i, c)]]

\* the dict of one row with 'row[0]' for 'row[i]'
RowDictFirstValue(field_names, row, n) ==
    [i \in 1..n |-> <<field_names[i], row[1]>>]

\* row_dict after the first n passes of 'row_dict[field_name] = row[i]'
RECURSIVE RowDict(_, _, _)
RowDict(field_names, row, n) ==
    IF n = 0 THEN <<>>
    ELSE DictSet(RowDict(field_names, row, n - 1), field_names[n], row[n])

\* result_list: the loop over the rows, left at the RowLimit-th row
RECURSIVE ResultList(_, _, _)
ResultList(field_names, rows, row_count) ==
    IF rows = <<>> THEN <<>>
    ELSE LET row_dict == RowDict(field_names, Head(rows), Len(field_names)) IN
         IF row_count + 1 >= RowLimit THEN <<row_dict>>
         ELSE <<row_dict>> \o ResultList(field_names, Tail(rows), row_count + 1)

\* run_query's except clause written as the other handlers write theirs
QueryFailedExits(e) ==
    /\ Fatal(e, "Error executing query: ")
    /\ UNCHANGED result

\* 'except GoogleCloudError as e: return f"Error executing query: {e}"'
\* around a call that raised e
QueryFailed(e) ==
    IF e.kind = "GoogleCloudError"
    THEN /\ result' = Str(QueryError(e))
         /\ pc' = "print_result"
         /\ UNCHANGED <<stdout, stderr, exit_status>>
    ELSE /\ Uncaught(e)
         /\ UNCHANGED result

RunQuery ==
    /\ pc = "dispatch"
    /\ argv.command = "run-query"
    /\ IF Rejects(argv.query)
       THEN /\ result' = Str(Rejection)
            /\ pc' = "print_result"
            /\ UNCHANGED <<calls, job, stdout, stderr, exit_status>>
       ELSE \E e \in Outcomes :
            LET config == [query |-> argv.query, dry_run |-> argv.dry_run] IN
            IF e # NoError
            THEN /\ calls' = Append(calls, Call("query", config, e, NoJob))
                 /\ QueryFailed(e)
                 /\ UNCHANGED job
            ELSE \E j \in Jobs(argv.dry_run) :
                 /\ job' = j
                 /\ IF argv.dry_run
                    THEN /\ calls' = Append(calls, Call("query", config, e, j))
                         /\ result' = Str(DryRunMessage(j.total_bytes_processed))
                         /\ pc' = "print_result"
                         /\ UNCHANGED <<stdout, stderr, exit_status>>
                    ELSE \E r \in Outcomes :
                         IF r # NoError
                         THEN /\ calls' = calls \o
                                    << Call("query", config, e, j),
                                       Call("result", MaxResults, r, <<>>) >>
                              /\ QueryFailed(r)
                         ELSE LET rows == Cursor(j, MaxResults) IN
                              \E it \in Outcomes :
                              \E yielded \in 0..Min(Len(rows), RowLimit) :
                              /\ it = NoError => yielded = Min(Len(rows), RowLimit)
                              /\ it # NoError => yielded < RowLimit
                              /\ calls' = calls \o
                                    << Call("query", config, e, j),
                                       Call("result", MaxResults, r, rows),
                                       Call("iterate", yielded, it, <<>>) >>
                              /\ IF it # NoError
                                 THEN QueryFailed(it)
                                 ELSE /\ result' = List(ResultList(j.schema, rows, 0))
                                      /\ pc' = "print_result"
                                      /\ UNCHANGED <<stdout, stderr, exit_status>>
    /\ UNCHANGED <<argv, environ, bq, ret>>

(***************************************************************************)
(* main(): the print of the handler's result, and the normal exit.         *)
(***************************************************************************)
PrintResult ==
    /\ pc = "print_result"
    /\ stdout' = Append(stdout, format_output(result, "table"))
    /\ pc' = "exited"
    /\ UNCHANGED <<argv, environ, bq, stderr, exit_status, calls, job, result,
                   ret>>

Next ==
    \/ ParseArgs
    \/ CheckCredentials
    \/ InitClient
    \/ ListDatasets
    \/ ListTables
    \/ GetSchema
    \/ RunQuery
    \/ PrintResult

Spec == Init /\ [][Next]_vars

(***************************************************************************)
(* The claims.  What follows states the properties checked of the model;   *)
(* the words of a query text are told apart here by splitting the text     *)
(* into its maximal runs of word characters, not by pattern search.        *)
(***************************************************************************)
UpperOf(c) ==
    IF c \in Range(LowerCase)
    THEN UpperCase[CHOOSE k \in 1..26 : LowerCase[k] = c]
    ELSE c

\* the positions of s where a maximal run of word characters starts
WordStarts(s) ==
    {i \in 1..Len(s) : s[i] \in WordChars /\ (i = 1 \/ s[i - 1] \notin WordChars)}

\* the word of s that starts at i, in upper case
WordFrom(s, i) ==
    LET j == CHOOSE e \in i..Len(s) :
                 /\ \A k \in i..e : s[k] \in WordChars
                 /\ (e = Len(s) \/ s[e + 1] \notin WordChars)
    IN  [k \in 1..(j - i + 1) |-> UpperOf(s[i + k - 1])]

EightKeywords ==
    { <<"I","N","S","E","R","T">>, <<"U","P","D","A","T","E">>,
      <<"D","E","L","E","T","E">>, <<"C","R","E","A","T","E">>,
      <<"D","R","O","P">>, <<"A","L","T","E","R">>,
      <<"M","E","R","G","E">>, <<"T","R","U","N","C","A","T","E">> }

\* s holds one of the eight mutating keywords as a whole word, in any case
HasMutatingWord(s) == \E i \in WordStarts(s) : WordFrom(s, i) \in EightKeywords

\* s holds the whole word first and, anywhere later, the whole word second
WordThenWord(s, first, second) ==
    \E i \in WordStarts(s) : \E j \in WordStarts(s) :
        i < j /\ WordFrom(s, i) = first /\ WordFrom(s, j) = second

\* the command handler has returned, or the process has ended in it
Handled(command) ==
    /\ argv.command = command
    /\ bq.connected
    /\ pc \in {"print_result", "exited"}

OpsCalled == {calls[k].op : k \in 1..Len(calls)}

RaisedIn(ops) ==
    {k \in 1..Len(calls) : calls[k].op \in ops /\ calls[k].raised # NoError}

LastPrinted == stdout[Len(stdout)]

\* C1: a query the safety filter rejects is never submitted: run-query, with
\* dry_run true or false, makes no call to the service for it (the log holds
\* the construction of the client and nothing else) and returns the fixed
\* rejection message; every query that is submitted is one is_readonly accepts.
C1_RejectedNeverSubmitted ==
    /\ \A k \in 1..Len(calls) :
          calls[k].op = "query" => is_readonly_query(calls[k].arg.query)
    /\ (argv.command = "run-query" /\ ~is_readonly_query(argv.query)) =>
          /\ OpsCalled \subseteq {"Client"}
          /\ ~job.submitted
          /\ Handled("run-query") =>
                result = Str("Error: Only read-only queries are allowed. Data modification operations detected.")

C1_Witness ==
    /\ Handled("run-query")
    /\ pc = "exited"
    /\ argv.dry_run
    /\ ~is_readonly_query(argv.query)
    /\ result = Str(Rejection)
    /\ Len(calls) = 1

\* C2: a query text that holds INSERT, UPDATE, DELETE, CREATE, DROP, ALTER,
\* MERGE or TRUNCATE as a whole word, in any letter case and at any position
\* (after a separator or on a later line too), is not read-only.
C2_KeywordAnywhereRejected ==
    (pc = "returned_is_readonly_query" /\ HasMutatingWord(argv.query))
        => ret = FALSE

C2_Witness ==
    /\ pc = "returned_is_readonly_query"
    /\ argv.query = <<"x", NL, "d", "r", "o", "p">>
    /\ ret = FALSE

\* C3: of a query text with none of the eight keywords, is_readonly is false
\* exactly when GRANT is followed anywhere later by TO, or REVOKE anywhere
\* later by FROM, as whole words in any letter case, whatever lies between.
C3_GrantRevokeAnywhere ==
    (pc = "returned_is_readonly_query" /\ ~HasMutatingWord(argv.query))
        => ret = ~ ( \/ WordThenWord(argv.query, GRANT, TO)
                     \/ WordThenWord(argv.query, REVOKE, FROM) )

\* C4: an executed query returns at most five rows however many the service
\* holds: the first rows of the cursor in the service's order, the columns of
\* each row in schema order and keyed by column name.
C4_AtMostFiveRowsInOrder ==
    (Handled("run-query") /\ result.type = "list") =>
        /\ job.submitted /\ ~job.dry_run
        /\ Len(result.list) <= 5
        /\ Len(result.list) = Min(job.total_rows, 5)
        /\ \A i \in 1..Len(result.list) :
              result.list[i] =
                  [c \in 1..Len(job.schema) |-> <<job.schema[c], Cell(i, c)>>]

C4_Witness ==
    /\ Handled("run-query")
    /\ pc = "exited"
    /\ result.type = "list"
    /\ job.total_rows > 5
    /\ Len(job.schema) > 1
    /\ Len(result.list) = 5
    /\ LastPrinted = Tabulate(result)

\* C5: a dry run of an accepted query submits the query for validation only:
\* no result is ever fetched, whatever rows the query would yield, and the
\* outcome is the status message with the byte estimate of the service.
C5_DryRunNeverExecutes ==
    (argv.command = "run-query" /\ argv.dry_run) =>
        /\ OpsCalled \subseteq {"Client", "query"}
        /\ \A k \in 1..Len(calls) :
              calls[k].op = "query" => calls[k].arg.dry_run
        /\ (Handled("run-query") /\ job.submitted) =>
              result = Str("Query validation successful. Estimated bytes processed: "
                           \o ToString(job.total_bytes_processed) \o " bytes.")

C5_Witness ==
    /\ Handled("run-query")
    /\ pc = "exited"
    /\ argv.dry_run
    /\ job.submitted
    /\ job.total_rows > 0
    /\ job.total_bytes_processed = 2048
    /\ LastPrinted = Str("Query validation successful. Estimated bytes processed: 2048 bytes.")

\* C6: format_output of an empty row list is "No data to display.", and
\* format_output of a string, whatever the string, is that string.
C6_EmptyListAndEveryString ==
    pc = "returned_format_output" =>
        /\ result = List(<<>>) => ret = Str("No data to display.")
        /\ result.type = "str" => ret = result
\* the call that listed the datasets or the tables, and the calls that
\* fetched the descriptor of each listed item
Listing == calls[2]

Fetches == SubSeq(calls, 3, Len(calls))

\* the handler listed its items and returned every one of them as a row, in
\* the order listed, a row whose fetch failed with an empty description
ListingSurvives(id_column) ==
    /\ exit_status = 0
    /\ result.type = "list"
    /\ Len(result.list) = Len(Listing.returned)
    /\ Len(Fetches) = Len(Listing.returned)
    /\ \A k \in 1..Len(result.list) :
          LET row == result.list[k] IN
          /\ row[1] = <<id_column, Listing.returned[k]>>
          /\ row[Len(row)][1] = "Description"
          /\ Fetches[k].raised # NoError => row[Len(row)][2] = ""
    /\ pc = "exited" => LastPrinted = format_output(result, "table")

\* C7, as claimed: in list-datasets and in list-tables alike, a listed item
\* whose descriptor cannot be fetched is returned with an empty description,
\* with every other listed item, and the exit status stays zero.
C7_FetchFailureNeverAborts ==
    /\ (Handled("list-datasets") /\ Listing.raised = NoError)
          => ListingSurvives("Dataset ID")
    /\ (Handled("list-tables") /\ Listing.raised = NoError)
          => ListingSurvives("Table ID")

\* C7, amended: in list-datasets a listed item whose descriptor cannot be
\* fetched is returned with an empty description, with every other listed
\* item, and the exit status stays zero; in list-tables the first such
\* failure ends the process with status 1, no row returned or printed.
C7_DatasetFetchFailureDegrades ==
    /\ (Handled("list-datasets") /\ Listing.raised = NoError)
          => ListingSurvives("Dataset ID")
    /\ (Handled("list-tables") /\ Listing.raised = NoError
            /\ RaisedIn({"get_table"}) # {})
          => /\ pc = "exited"
             /\ exit_status = 1
             /\ result = Str("")
             /\ \A k \in 1..Len(stdout) : stdout[k].type = "str"

C7_Witness ==
    /\ Handled("list-datasets")
    /\ pc = "exited"
    /\ exit_status = 0
    /\ Len(result.list) > 1
    /\ Fetches[1].raised # NoError
    /\ Fetches[2].raised = NoError
    /\ result.list[1] = << <<"Dataset ID", "dataset1">>, <<"Description", "">> >>
    /\ result.list[2][2][2] # ""
    /\ LastPrinted = Tabulate(result)

\* C8: an error the service raises while run-query submits, validates or
\* executes an accepted query becomes the outcome "Error executing query:
\* {detail}", which is printed on the primary output stream; the process
\* exits with status zero.
C8_QueryErrorReported ==
    \A k \in 1..Len(calls) :
        ( /\ calls[k].op \in {"query", "result", "iterate"}
          /\ calls[k].raised.kind = "GoogleCloudError" ) =>
            /\ Handled("run-query")
            /\ exit_status = 0
            /\ result = Str("Error executing query: " \o calls[k].raised.detail)
            /\ pc = "exited" => LastPrinted = result

C8_Witness ==
    /\ Handled("run-query")
    /\ pc = "exited"
    /\ exit_status = 0
    /\ calls[Len(calls)].op = "result"
    /\ calls[Len(calls)].raised.kind = "GoogleCloudError"
    /\ LastPrinted = Str("Error executing query: 404 Not found")

\* the calls whose failure is fatal: the construction of the client, the
\* listing of datasets or tables, get_table in list-tables and in get-schema
FatalOps == {"Client", "list_datasets", "list_tables", "get_table"}

\* C9: when the session cannot be established, or the listing of datasets or
\* tables or the fetch of a schema fails, the process ends at once with a
\* non-zero status: the failed call is the last call made and is made once,
\* and neither rows nor a formatted table are printed.
C9_FatalFailures ==
    \A k \in RaisedIn(FatalOps) :
        /\ pc = "exited"
        /\ exit_status # 0
        /\ k = Len(calls)
        /\ \A l \in 1..Len(calls) :
              (calls[l].op = calls[k].op /\ calls[l].arg = calls[k].arg) => l = k
        /\ result = Str("")
        /\ \A l \in 1..Len(stdout) : stdout[l].type = "str" /\ stdout[l].str # NoData

C9_Witness ==
    /\ argv.command = "list-tables"
    /\ pc = "exited"
    /\ exit_status = 1
    /\ Len(calls) = 4
    /\ calls[3].raised = NoError
    /\ calls[4].raised.kind = "GoogleCloudError"
    /\ LastPrinted = Str("Error listing tables in dataset ds: 403 Access Denied")

\* C10: the bootstrap writes to the diagnostic stream alone: when the command
\* handler is about to be called, nothing is on the primary output stream.
C10_BootstrapSilentOnStdout ==
    pc \in {"init_client", "dispatch"} => stdout = <<>>

====
